---- MODULE Spec2Model ----
(***************************************************************************)
(* A model of CSVibe (src/app.py): the three document generators           *)
(* (Dictionary / Quotes / Authored Quotes), their vertical placement       *)
(* functions and scale model, and the top-level upload/validate/generate   *)
(* driver.                                                                 *)
(*                                                                         *)
(* Text.  A Python str is modelled as a sequence of runs <<c, n>>: n >= 1  *)
(* copies of the character with code point c (32 space, 44 comma, 60 '<',  *)
(* 65 'A', 97 'a', 233 e-acute, ...).  Python's None is the value None.    *)
(*                                                                         *)
(* Numbers.  Python floats are modelled by exact rationals.  Page sizes    *)
(* are given in tenths of an inch (w10, h10), so that                      *)
(*     scale_factor = (w10/10/11 + h10/10/14) / 2 = ScaleNum / ScaleDen    *)
(* with ScaleNum = 14*w10 + 11*h10 and ScaleDen = 10*2*11*14 = 3080.       *)
(* Lengths on the page (points, 72 per inch) are integers counted in       *)
(* units of 1/Den point, Den = 20 * ScaleDen, which makes every length     *)
(* the code computes an even integer, so halving is exact.                 *)
(***************************************************************************)
EXTENDS Integers, Sequences, FiniteSets, TLC

VARIABLES
    document_type,   \* sidebar selectbox "Select Document Type"
    page_position,   \* the page_position argument handed to the generator
    page_size,       \* <<width, height>> in tenths of an inch
    fonts,           \* <<term font, pronunciation/author font, definition font>> selected
    validation_msg,  \* what the validation displayed: "none", "error" or "success"
    header,          \* first line of an uploaded Dictionary CSV: its column names
    file,            \* the uploaded file's lines after the header (sequence of Text)
    csv_valid,       \* result of the load-time validation
    pc,              \* position of the driver
    target,          \* which button started the run: "pdf" or "png"
    line_num,        \* number of lines of file the generator's reader has consumed
    first_page,      \* the generator's first_page flag
    story,           \* the generator's flow of elements
    layout,          \* per emitted record: the inputs and result of the placement call
    warnings,        \* number of st.warning calls of the run
    document,        \* the flow handed to doc.build (<<>> until built)
    png_files,       \* number of images produced by convert_pdf_to_png
    generate_all_sizes, \* sidebar checkbox "Generate All Standard Sizes"
    size_idx,        \* how many sizes of the run's size list have been started
    disk,            \* the files and folders the run has on disk
    temp_files,      \* generate_pngs_from_csv: the list of temporary PDFs
    zip_files,       \* PDF handler: the per-size PDFs collected for the archive
    png_folders,     \* generate_pngs_from_csv: its result, <<size, image count>> per folder
    built,           \* per document built in the run: <<page size, number of pages>>
    errors,          \* the errors displayed in the run (st.error, status_placeholder.error),
                     \* in order: "convert", "no_output" or "exception"
    fault,           \* the engine, the rasterizer or the filesystem has failed in the
                     \* run (the model lets one such failure happen per run)
    clock,           \* int(time.time() * 1000): the wall clock, in milliseconds
    registrations,   \* the pdfmetrics.registerFont calls made since the button was
                     \* pressed: the font name each was given, in order
    archive          \* the image files the "Generate PNGs" handler wrote to its archive

vars == <<document_type, page_position, page_size, fonts, validation_msg, header, file, csv_valid, pc,
          target, line_num, first_page, story, layout, warnings, document, png_files,
          generate_all_sizes, size_idx, disk, temp_files, zip_files, png_folders, built,
          errors, fault, clock, registrations, archive>>

----------------------------------------------------------------------------
(* Bounds of the model *)

\* longest uploaded file, in data lines
MaxRows == 2

----------------------------------------------------------------------------
(* Text *)

None == <<<<-1, 0>>>>

RECURSIVE SumRuns(_)
SumRuns(t) == IF t = <<>> THEN 0 ELSE Head(t)[2] + SumRuns(Tail(t))

\* len(text)
StrLen(t) == SumRuns(t)

\* str.isspace for one character
IsSpace(c) == c \in {9, 10, 11, 12, 13, 32}

RECURSIVE LStrip(_)
LStrip(t) == IF t # <<>> /\ IsSpace(Head(t)[1]) THEN LStrip(Tail(t)) ELSE t

RECURSIVE RStrip(_)
RStrip(t) ==
    IF t # <<>> /\ IsSpace(t[Len(t)][1]) THEN RStrip(SubSeq(t, 1, Len(t) - 1)) ELSE t

\* str.strip()
Strip(t) == RStrip(LStrip(t))

\* str.lower() on the modelled alphabet: 'A'..'Z' -> 'a'..'z'
LowerChar(c) == IF c >= 65 /\ c <= 90 THEN c + 32 ELSE c

Lower(t) == [i \in 1..Len(t) |-> <<LowerChar(t[i][1]), t[i][2]>>]

\* any(ord(char) > 127 for char in text)
HasNonAscii(t) == \E i \in 1..Len(t) : t[i][1] > 127

\* f"{x}" : None formats as the four characters "None"
Fmt(t) == IF t = None THEN <<<<78, 1>>, <<111, 1>>, <<110, 1>>, <<101, 1>>>> ELSE t

\* csv.reader on one line holding no quote character: split at every comma.
\* An empty line gives the empty row [].
RECURSIVE SplitAt(_, _)
SplitAt(t, cur) ==
    IF t = <<>> THEN <<cur>>
    ELSE IF Head(t)[1] = 44
         THEN <<cur>> \o SplitAt(IF Head(t)[2] > 1
                                  THEN <<<<44, Head(t)[2] - 1>>>> \o Tail(t)
                                  ELSE Tail(t), <<>>)
         ELSE SplitAt(Tail(t), Append(cur, Head(t)))

CsvRow(line) == IF line = <<>> THEN <<>> ELSE SplitAt(line, <<>>)

----------------------------------------------------------------------------
(* Unit/Scale model: rationals <<numerator, denominator>>, denominator > 0 *)

baseline_width == 11

baseline_height == 14

\* points per inch (reportlab.lib.units.inch)
inch == 72

RAdd(a, b) == <<a[1] * b[2] + b[1] * a[2], a[2] * b[2]>>

RHalf(a) == <<a[1], 2 * a[2]>>

RLess(a, b) == a[1] * b[2] < b[1] * a[2]

REq(a, b) == a[1] * b[2] = b[1] * a[2]

\* page_width_inches / baseline_width
width_scale(size) == <<size[1], 10 * baseline_width>>

\* page_height_inches / baseline_height
height_scale(size) == <<size[2], 10 * baseline_height>>

\* scale_factor = (width_scale + height_scale) / 2, in create_pdf_from_csv
scale_factor(size) == RHalf(RAdd(width_scale(size), height_scale(size)))

\* mutant: the width ratio alone is taken as the scale
quote_scale_factor_width(size) == width_scale(size)

\* the same computation in create_quotes_pdf_from_csv
quote_scale_factor(size) == RHalf(RAdd(width_scale(size), height_scale(size)))

\* the same computation in create_authored_quotes_pdf_from_csv
authored_scale_factor(size) == RHalf(RAdd(width_scale(size), height_scale(size)))

\* int(x * sf), x a non-negative integer, sf a rational
IntScaled(x, sf) == (x * sf[1]) \div sf[2]

\* lengths are integers in units of 1/Den point
Den == 2 * (2 * (10 * baseline_width) * (10 * baseline_height))

\* (x2 / 2) * sf * inch, in length units
ScaledInchUnits(x2, sf) == (x2 * inch * sf[1] * (Den \div sf[2])) \div 2

\* a whole number of points, in length units
Pt(x) == x * Den

\* page_height = page_height_inches * inch
page_height(size) == size[2] * inch * (Den \div 10)

\* page_width = page_width_inches * inch
page_width(size) == size[1] * inch * (Den \div 10)

\* scaled_margin = 1.5 * scale_factor * inch
scaled_margin(sf) == ScaledInchUnits(3, sf)

Max(a, b) == IF a >= b THEN a ELSE b

----------------------------------------------------------------------------
(* Vertical placement: one copy per generator, as in the source *)

\* mutant: middle placement uses the whole free height, as bottom would
get_end_positioned_spacer_amount_whole(position, page_h, margin, content_height, sf) ==
    LET content_area_height == page_h - 2 * margin
        conservative_bottom_margin == Pt(IntScaled(20, sf))
    IN  IF position = "top" THEN 0
        ELSE IF position = "middle"
             THEN Max(0, content_area_height - content_height)
        ELSE IF position = "bottom"
             THEN Max(0, content_area_height - content_height - conservative_bottom_margin)
        ELSE 0

\* mutant: every position that starts with "bottom" is placed at the bottom
get_end_positioned_spacer_amount_prefix(position, page_h, margin, content_height, sf) ==
    LET content_area_height == page_h - 2 * margin
        conservative_bottom_margin == Pt(IntScaled(20, sf))
    IN  IF position = "top" THEN 0
        ELSE IF position = "middle"
             THEN Max(0, (content_area_height - content_height) \div 2)
        ELSE IF position \in {"bottom", "bottom-left"}
             THEN Max(0, content_area_height - content_height - conservative_bottom_margin)
        ELSE 0

get_end_positioned_spacer_amount(position, page_h, margin, content_height, sf) ==
    LET content_area_height == page_h - 2 * margin
        conservative_bottom_margin == Pt(IntScaled(20, sf))
    IN  IF position = "top" THEN 0
        ELSE IF position = "middle"
             THEN Max(0, (content_area_height - content_height) \div 2)
        ELSE IF position = "bottom"
             THEN Max(0, content_area_height - content_height - conservative_bottom_margin)
        ELSE 0

\* mutant: the bottom spacer is not floored at 0
get_quote_spacer_amount_nofloor(position, page_h, margin, content_height, sf) ==
    LET content_area_height == page_h - 2 * margin
        conservative_bottom_margin == Pt(IntScaled(20, sf))
    IN  IF position = "top" THEN 0
        ELSE IF position = "middle"
             THEN Max(0, (content_area_height - content_height) \div 2)
        ELSE IF position = "bottom"
             THEN content_area_height - content_height - conservative_bottom_margin
        ELSE 0

\* mutant: the conservative bottom margin is 20 * scale_factor, not truncated
\* to a whole number
get_quote_spacer_amount_untruncated(position, page_h, margin, content_height, sf) ==
    LET content_area_height == page_h - 2 * margin
        conservative_bottom_margin == 20 * sf[1] * (Den \div sf[2])
    IN  IF position = "top" THEN 0
        ELSE IF position = "middle"
             THEN Max(0, (content_area_height - content_height) \div 2)
        ELSE IF position = "bottom"
             THEN Max(0, content_area_height - content_height - conservative_bottom_margin)
        ELSE 0

get_quote_spacer_amount(position, page_h, margin, content_height, sf) ==
    LET content_area_height == page_h - 2 * margin
        conservative_bottom_margin == Pt(IntScaled(20, sf))
    IN  IF position = "top" THEN 0
        ELSE IF position = "middle"
             THEN Max(0, (content_area_height - content_height) \div 2)
        ELSE IF position = "bottom"
             THEN Max(0, content_area_height - content_height - conservative_bottom_margin)
        ELSE 0

\* mutant: the conservative bottom margin is added instead of subtracted
get_authored_quote_spacer_amount_plus(position, page_h, margin, content_height, sf) ==
    LET content_area_height == page_h - 2 * margin
        conservative_bottom_margin == Pt(IntScaled(20, sf))
    IN  IF position = "top" THEN 0
        ELSE IF position = "middle"
             THEN Max(0, (content_area_height - content_height) \div 2)
        ELSE IF position = "bottom"
             THEN Max(0, content_area_height - content_height + conservative_bottom_margin)
        ELSE 0

get_authored_quote_spacer_amount(position, page_h, margin, content_height, sf) ==
    LET content_area_height == page_h - 2 * margin
        conservative_bottom_margin == Pt(IntScaled(20, sf))
    IN  IF position = "top" THEN 0
        ELSE IF position = "middle"
             THEN Max(0, (content_area_height - content_height) \div 2)
        ELSE IF position = "bottom"
             THEN Max(0, content_area_height - content_height - conservative_bottom_margin)
        ELSE 0

----------------------------------------------------------------------------
(* The rendering engine (reportlab), as far as the generators depend on it *)

\* Paragraph(text, style) raises on None (text.split) and on markup it cannot
\* parse; an unbalanced '<' (code point 60) stands for such markup.
ParagraphRaises(t) == t = None \/ \E i \in 1..Len(t) : t[i][1] = 60

\* Paragraph.wrap(available_width, max_height)[1]: the number of wrapped lines
\* is the engine's; the height is lines * leading.
WrapHeight(lines, leading) == Pt(lines * leading)

----------------------------------------------------------------------------
(* Fonts.  A font name is [name, stamp]: a built-in name has stamp 0; a     *)
(* registered TTF font is named f"{base_name}_{int(time.time() * 1000)}",  *)
(* modelled as base_name with a stamp > 0.                                 *)

BuiltInFonts ==
    {"Times-Bold", "Helvetica-Bold", "Helvetica", "Times-Roman", "Courier", "Courier-Bold"}

\* font paths that end in .ttf and exist on disk
TtfFiles == {"/fonts/a.ttf", "/fonts/b.ttf"}

\* os.path.exists of the Segoe UI files the Unicode fallback looks for
SegoeInstalled == FALSE

\* register_font_safe(font_path, base_name), registration at time now succeeding
register_font_safe(font_path, base_name, now) ==
    IF font_path \in TtfFiles THEN [name |-> base_name, stamp |-> now]
    ELSE IF font_path \in BuiltInFonts THEN [name |-> font_path, stamp |-> 0]
    ELSE [name |-> "Times-Bold", stamp |-> 0]

\* "Update built-in font references to Unicode versions"
UnicodeVersion(f, now) ==
    IF SegoeInstalled /\ f.name = "Helvetica-Bold" /\ f.stamp = 0
    THEN [name |-> "UnicodeBold", stamp |-> now]
    ELSE IF SegoeInstalled /\ f.name = "Helvetica" /\ f.stamp = 0
    THEN [name |-> "Unicode", stamp |-> now]
    ELSE f

\* '_' in fontName or any(char.isdigit() for char in fontName[-10:])
LooksCustom(f) == f.stamp # 0

\* the names a generator's register_font_safe calls hand to
\* pdfmetrics.registerFont when the clock reads now, in call order (the calls
\* of one generator follow each other directly; the Segoe fallback registers
\* nothing unless SegoeInstalled)
RegisteredFonts(dt, sel, now) ==
    LET calls == IF dt = "Dictionary"
                 THEN <<register_font_safe(sel[1], "TermFont", now),
                        register_font_safe(sel[2], "PronunciationFont", now),
                        register_font_safe(sel[3], "DefinitionFont", now)>>
                 ELSE IF dt = "Quotes"
                 THEN <<register_font_safe(sel[1], "QuoteFont", now)>>
                 ELSE <<register_font_safe(sel[1], "QuoteFont", now),
                        register_font_safe(sel[2], "AuthorFont", now)>>
    IN  SelectSeq(calls, LooksCustom)

\* the font names of create_pdf_from_csv: title, pronunciation, definition
DictionaryFontNames(sel) ==
    <<register_font_safe(sel[1], "TermFont", 1),
      UnicodeVersion(register_font_safe(sel[2], "PronunciationFont", 1), 1),
      UnicodeVersion(register_font_safe(sel[3], "DefinitionFont", 1), 1)>>

\* the font name of create_quotes_pdf_from_csv (called with term_font)
QuoteFontNames(sel) ==
    <<UnicodeVersion(register_font_safe(sel[1], "QuoteFont", 1), 1)>>

\* the font names of create_authored_quotes_pdf_from_csv (called with
\* term_font and pronunciation_font): quote, author
AuthoredFontNames(sel) ==
    <<UnicodeVersion(register_font_safe(sel[1], "QuoteFont", 1), 1),
      UnicodeVersion(register_font_safe(sel[2], "AuthorFont", 1), 1)>>

\* size * 0.20 for a custom-looking font name
FontPadding(f, scaled_size) == IF LooksCustom(f) THEN Pt(scaled_size) \div 5 ELSE 0

----------------------------------------------------------------------------
(* Height estimators, at the default sizes: term 84, pronunciation 28,     *)
(* definition 28, quote 48, author 24                                      *)

term_size == 84

term_spacing == 48

pronunciation_size == 28

pronunciation_spacing == 36

definition_size == 28

quote_size == 48

author_size == 24

\* f"{row['pronunciation']} • ({row['type']})"
PronunciationText(row) ==
    Fmt(row.pronunciation) \o <<<<32, 1>>, <<8226, 1>>, <<32, 1>>, <<40, 1>>>>
    \o Fmt(row.type) \o <<<<41, 1>>>>

\* mutant: the comparison is turned round, short texts get the padding
MultilinePadding_short(text, sf) ==
    LET line_count == Max(1, StrLen(text) \div 80)
    IN  IF line_count <= 2 THEN Pt(line_count * IntScaled(8, sf)) ELSE 0

\* mutant: the padding is line_count * 8 * scale_factor, not truncated
MultilinePadding_untruncated(text, sf) ==
    LET line_count == Max(1, StrLen(text) \div 80)
    IN  IF line_count > 2 THEN line_count * 8 * sf[1] * (Den \div sf[2]) ELSE 0

\* max(1, len(text) // 80), and the padding it triggers
MultilinePadding(text, sf) ==
    LET line_count == Max(1, StrLen(text) \div 80)
    IN  IF line_count > 2 THEN Pt(line_count * IntScaled(8, sf)) ELSE 0

\* mutant: the 10% margin is taken off instead of added
WithSafetyMargin_minus(total) == total - total \div 10

\* total + total * 0.10
WithSafetyMargin(total) == total + total \div 10

\* calculate_content_height(row, ...): row is [term, pronunciation, type, definition],
\* w = <<term lines, pronunciation lines, definition lines>> from the engine.
\* Result <<height, warned>>.
calculate_content_height(row, w, sf, fn) ==
    IF row.term = None
       \/ ParagraphRaises(Lower(row.term))
       \/ ParagraphRaises(PronunciationText(row))
       \/ ParagraphRaises(row.definition)
    THEN <<ScaledInchUnits(16, sf), TRUE>>
    ELSE LET scaled_term_size == IntScaled(term_size, sf)
             scaled_term_spacing == IntScaled(term_spacing, sf)
             scaled_pronunciation_size == IntScaled(pronunciation_size, sf)
             scaled_pronunciation_spacing == IntScaled(pronunciation_spacing, sf)
             scaled_definition_size == IntScaled(definition_size, sf)
             scaled_line_width == IntScaled(4, sf)
             scaled_definition_space_before == IntScaled(54, sf)
             term_height == WrapHeight(w[1], scaled_term_size)
             pronunciation_height ==
                 WrapHeight(w[2], scaled_pronunciation_size + IntScaled(4, sf))
             definition_height ==
                 WrapHeight(w[3], scaled_definition_size + IntScaled(12, sf))
             total0 == term_height + Pt(scaled_term_spacing)
                       + pronunciation_height + Pt(scaled_pronunciation_spacing)
                       + Pt(scaled_line_width) + Pt(scaled_definition_space_before)
                       + definition_height
             font_padding == FontPadding(fn[1], scaled_term_size)
                             + FontPadding(fn[2], scaled_pronunciation_size)
                             + FontPadding(fn[3], scaled_definition_size)
             total1 == total0 + font_padding
                       + Pt(IntScaled(12, sf)) + Pt(IntScaled(4, sf))
             total2 == total1 + MultilinePadding(row.definition, sf)
             text_content == Fmt(row.term) \o <<<<32, 1>>>> \o Fmt(row.pronunciation)
                             \o <<<<32, 1>>>> \o Fmt(row.definition)
             total3 == total2 + (IF HasNonAscii(text_content)
                                 THEN Pt(IntScaled(6, sf)) ELSE 0)
         IN  <<WithSafetyMargin(total3), FALSE>>

\* calculate_quote_height(quote_text, ...): w = <<quote lines>>
calculate_quote_height(quote_text, w, sf, fn) ==
    IF ParagraphRaises(quote_text)
    THEN <<ScaledInchUnits(16, sf), TRUE>>
    ELSE LET scaled_quote_size == IntScaled(quote_size, sf)
             quote_height0 == WrapHeight(w[1], scaled_quote_size + IntScaled(12, sf))
             quote_height1 == quote_height0 + FontPadding(fn[1], scaled_quote_size)
                              + Pt(IntScaled(12, sf))
             quote_height2 == quote_height1 + MultilinePadding(quote_text, sf)
             quote_height3 == quote_height2 + (IF HasNonAscii(quote_text)
                                               THEN Pt(IntScaled(6, sf)) ELSE 0)
         IN  <<WithSafetyMargin(quote_height3), FALSE>>

\* calculate_authored_quote_height(quote_text, author_text, ...):
\* w = <<quote lines, author lines>>
calculate_authored_quote_height(quote_text, author_text, w, sf, fn) ==
    IF ParagraphRaises(quote_text) \/ ParagraphRaises(author_text)
    THEN <<ScaledInchUnits(16, sf), TRUE>>
    ELSE LET scaled_quote_size == IntScaled(quote_size, sf)
             scaled_author_size == IntScaled(author_size, sf)
             scaled_author_spacing == IntScaled(24, sf)
             quote_height == WrapHeight(w[1], scaled_quote_size + IntScaled(12, sf))
             author_height == WrapHeight(w[2], scaled_author_size + IntScaled(4, sf))
             total0 == quote_height + Pt(scaled_author_spacing) + author_height
             font_padding == FontPadding(fn[1], scaled_quote_size)
                             + FontPadding(fn[2], scaled_author_size)
             total1 == total0 + font_padding
                       + Pt(IntScaled(12, sf)) + Pt(IntScaled(4, sf))
             total2 == total1 + MultilinePadding(quote_text, sf)
             text_content == quote_text \o <<<<32, 1>>>> \o author_text
             total3 == total2 + (IF HasNonAscii(text_content)
                                 THEN Pt(IntScaled(6, sf)) ELSE 0)
         IN  <<WithSafetyMargin(total3), FALSE>>

----------------------------------------------------------------------------
(* Flow elements *)

El(kind, text, style, height) ==
    [kind |-> kind, text |-> text, style |-> style, height |-> height]

PageBreak == El("PageBreak", <<>>, "", 0)

Spacer(h) == El("Spacer", <<>>, "", h)

Paragraph(t, style) == El("Paragraph", t, style, 0)

LineFlowable == El("Line", <<>>, "", 0)

Min(S) == CHOOSE x \in S : \A y \in S : x <= y

\* mutant: the elements of a record are put in front of the flow
AppendUntilRaise_front(st, elems) == <<elems \o st, FALSE>>

\* story.append(...) for each element in turn, until a Paragraph(...) raises.
\* Result <<story, raised>>.
AppendUntilRaise(st, elems) ==
    LET bad == {i \in 1..Len(elems) :
                   elems[i].kind = "Paragraph" /\ ParagraphRaises(elems[i].text)}
    IN  IF bad = {} THEN <<st \o elems, FALSE>>
        ELSE <<st \o SubSeq(elems, 1, Min(bad) - 1), TRUE>>

----------------------------------------------------------------------------
(* Inputs *)

required_columns == <<"term", "pronunciation", "type", "definition">>

Range(f) == {f[i] : i \in DOMAIN f}

Headers ==
    { <<"term", "pronunciation", "type", "definition">>,
      <<"definition", "term", "pronunciation", "type", "notes">>,
      <<"term", "pronunciation", "definition">>,
      <<"word", "meaning">> }

\* "T,p,n,d"   d*240 ",p," e' ",d"   "t,p"   ""   "t,p,n,<"
DictLines ==
    { <<<<84, 1>>, <<44, 1>>, <<112, 1>>, <<44, 1>>, <<110, 1>>, <<44, 1>>, <<100, 1>>>>,
      <<<<100, 240>>, <<44, 1>>, <<112, 1>>, <<44, 1>>, <<233, 1>>, <<44, 1>>, <<100, 1>>>>,
      <<<<116, 1>>, <<44, 1>>, <<112, 1>>>>,
      <<>>,
      <<<<116, 1>>, <<44, 1>>, <<112, 1>>, <<44, 1>>, <<110, 1>>, <<44, 1>>, <<60, 1>>>> }

\* ""   "  "   "a"   " a "   e' a*240   "<"
QuoteLines ==
    { <<>>,
      <<<<32, 2>>>>,
      <<<<97, 1>>>>,
      <<<<32, 1>>, <<97, 1>>, <<32, 1>>>>,
      <<<<233, 1>>, <<97, 240>>>>,
      <<<<60, 1>>>> }

\* ""   "a"   " a , b "   " ,b"   "a, "   "a,b,c"   "<,b"
AuthoredLines ==
    { <<>>,
      <<<<97, 1>>>>,
      <<<<32, 1>>, <<97, 1>>, <<32, 1>>, <<44, 1>>, <<32, 1>>, <<98, 1>>, <<32, 1>>>>,
      <<<<32, 1>>, <<44, 1>>, <<98, 1>>>>,
      <<<<97, 1>>, <<44, 1>>, <<32, 1>>>>,
      <<<<97, 1>>, <<44, 1>>, <<98, 1>>, <<44, 1>>, <<99, 1>>>>,
      <<<<60, 1>>, <<44, 1>>, <<98, 1>>>> }

DocumentTypes == {"Dictionary", "Quotes", "Authored Quotes"}

LinesOf(dt) ==
    IF dt = "Dictionary" THEN DictLines
    ELSE IF dt = "Quotes" THEN QuoteLines ELSE AuthoredLines

SeqsUpTo(S, n) == UNION {[1..k -> S] : k \in 0..n}

\* "top", "middle", "bottom" from the sidebar; "bottom-left" is the default of
\* create_pdf_from_csv and stands for every other value a caller may pass
Positions == {"top", "middle", "bottom", "bottom-left"}

\* <<width, height>> in tenths of an inch: 11x14, A0 (33.1x46.8), and the
\* custom sizes 5.5x7 and 50x1
PageSizes == {<<110, 140>>, <<331, 468>>, <<55, 70>>, <<500, 10>>}

\* the sidebar's defaults (the first three fonts found), and TTF files for the
\* first and third role
FontSelections ==
    { <<"Times-Bold", "Helvetica-Bold", "Helvetica">>,
      <<"/fonts/a.ttf", "Helvetica-Bold", "/fonts/b.ttf">> }

\* line counts the engine may report for the paragraphs of one record
WrapChoices == {<<1, 1, 1>>, <<40, 1, 40>>}

\* the settings of an upload.  For a single size: every sidebar position with
\* every page size, every font selection with every page size, and every
\* position (also "bottom-left") on the default 11x14 page.  With "Generate All
\* Standard Sizes" ticked: the sidebar's defaults.
Settings ==
    { [position |-> pos, size |-> size,
       fonts |-> <<"Times-Bold", "Helvetica-Bold", "Helvetica">>, all_sizes |-> FALSE] :
        pos \in {"top", "middle", "bottom"}, size \in PageSizes }
    \cup { [position |-> "bottom", size |-> size, fonts |-> sel, all_sizes |-> FALSE] :
              size \in PageSizes, sel \in FontSelections }
    \cup { [position |-> pos, size |-> <<110, 140>>,
            fonts |-> <<"Times-Bold", "Helvetica-Bold", "Helvetica">>,
            all_sizes |-> FALSE] : pos \in Positions }
    \cup { [position |-> "bottom", size |-> <<110, 140>>,
            fonts |-> <<"Times-Bold", "Helvetica-Bold", "Helvetica">>,
            all_sizes |-> TRUE] }

----------------------------------------------------------------------------
(* Load-time validation (module level, "if uploaded_file is not None:") *)

HasComma(t) == \E i \in 1..Len(t) : t[i][1] = 44

\* line.split(',', 1) of a line that holds a comma: <<parts[0], parts[1]>>
RECURSIVE SplitFirst(_, _)
SplitFirst(t, cur) ==
    IF Head(t)[1] = 44
    THEN <<cur, IF Head(t)[2] > 1
                THEN <<<<44, Head(t)[2] - 1>>>> \o Tail(t) ELSE Tail(t)>>
    ELSE SplitFirst(Tail(t), Append(cur, Head(t)))

\* the lines the validation of Authored Quotes counts as valid quotes
ValidQuoteLine(raw) ==
    LET line == Strip(raw)
    IN  /\ line # <<>>
        /\ HasComma(line)
        /\ Strip(SplitFirst(line, <<>>)[1]) # <<>>
        /\ Strip(SplitFirst(line, <<>>)[2]) # <<>>

valid_quotes(f) == Cardinality({i \in 1..Len(f) : ValidQuoteLine(f[i])})

\* mutant: only the term column is looked for
missing_columns_term(hd) == {c \in {"term"} : c \notin Range(hd)}

missing_columns(hd) == {c \in Range(required_columns) : c \notin Range(hd)}

Validate(dt, hd, f) ==
    IF dt = "Dictionary" THEN missing_columns(hd) = {}
    ELSE IF dt = "Authored Quotes" THEN valid_quotes(f) > 0
    ELSE TRUE

----------------------------------------------------------------------------
(* The driver and the generators *)

\* the import of fitz (PyMuPDF) succeeded
PYMUPDF_AVAILABLE == TRUE

\* standard_sizes of the "Generate PDF" handler, <<width, height>> in tenths of an inch
standard_sizes ==
    <<<<110, 140>>, <<160, 200>>, <<180, 240>>, <<240, 360>>, <<331, 468>>>>

\* mutant: the 18x24 size is left out of the list
png_standard_sizes_four ==
    <<<<110, 140>>, <<160, 200>>, <<240, 360>>, <<331, 468>>>>

\* standard_sizes of generate_pngs_from_csv
png_standard_sizes ==
    <<<<110, 140>>, <<160, 200>>, <<180, 240>>, <<240, 360>>, <<331, 468>>>>

\* the sizes a run goes through: the five standard sizes, or the selected one
SizesOfRun(t, all_sizes, selected) ==
    IF all_sizes
    THEN (IF t = "png" THEN png_standard_sizes ELSE standard_sizes)
    ELSE <<selected>>

\* a path on disk: size is the position of the size in the run's size list,
\* page the number of a page image
Path(kind, size, page) == [kind |-> kind, size |-> size, page |-> page]

\* the temporary copy of the uploaded file
temp_csv_path == Path("csv", 0, 0)

\* output_path of the "Generate PDF" handler
output_path(i) == Path("pdf", i, 0)

\* temp_pdf_path of generate_pngs_from_csv
temp_pdf_path(i) == Path("tmp_pdf", i, 0)

\* folder_name of generate_pngs_from_csv
folder_name(i) == Path("folder", i, 0)

\* png_path of convert_pdf_to_png
png_path(i, k) == Path("png", i, k)

\* zip_path of either handler
zip_path == Path("zip", 0, 0)

Init ==
    /\ document_type = "Dictionary"
    /\ page_position = "bottom"
    /\ page_size = <<110, 140>>
    /\ fonts = <<"Times-Bold", "Helvetica-Bold", "Helvetica">>
    /\ validation_msg = "none"
    /\ header = <<>>
    /\ file = <<>>
    /\ csv_valid = FALSE
    /\ pc = "idle"
    /\ target = "none"
    /\ line_num = 0
    /\ first_page = TRUE
    /\ story = <<>>
    /\ layout = <<>>
    /\ warnings = 0
    /\ document = <<>>
    /\ png_files = 0
    /\ generate_all_sizes = FALSE
    /\ size_idx = 0
    /\ disk = {}
    /\ temp_files = <<>>
    /\ zip_files = <<>>
    /\ png_folders = <<>>
    /\ built = <<>>
    /\ errors = <<>>
    /\ fault = FALSE
    /\ clock = 1
    /\ registrations = <<>>
    /\ archive = {}

\* One script run with a file in the uploader: the sidebar's settings are read
\* and the file is validated.
Load(dt, set, hd, f) ==
    /\ pc = "idle"
    /\ document_type' = dt
    /\ page_position' = set.position
    /\ page_size' = set.size
    /\ header' = hd
    /\ file' = f
    /\ fonts' = set.fonts
    /\ generate_all_sizes' = set.all_sizes
    /\ csv_valid' = Validate(dt, hd, f)
    /\ validation_msg' = IF Validate(dt, hd, f) THEN "success" ELSE "error"
    /\ pc' = "loaded"
    /\ UNCHANGED <<target, line_num, first_page, story, layout, warnings,
                   document, png_files, size_idx, disk, temp_files, zip_files,
                   png_folders, built, errors, fault,
                   clock, registrations, archive>>

\* an upload of any of the modelled files under any of the modelled settings
Upload ==
    /\ pc = "idle"
    /\ \E dt \in DocumentTypes, set \in Settings :
          \E hd \in (IF dt = "Dictionary" THEN Headers ELSE {<<>>}),
             f \in SeqsUpTo(LinesOf(dt), MaxRows) : Load(dt, set, hd, f)

\* a generate button pressed: the uploaded file is saved to temp_csv_path
StartRun(t) ==
    /\ pc = "loaded"
    /\ csv_valid
    /\ t = "png" => PYMUPDF_AVAILABLE
    /\ pc' = "sizes"
    /\ target' = t
    /\ disk' = disk \cup {temp_csv_path}
    /\ size_idx' = 0
    /\ line_num' = 0
    /\ first_page' = TRUE
    /\ story' = <<>>
    /\ layout' = <<>>
    /\ warnings' = 0
    /\ registrations' = <<>>
    /\ archive' = {}
    /\ UNCHANGED <<document_type, page_position, page_size, fonts, validation_msg,
                   header, file, csv_valid, document, png_files, generate_all_sizes,
                   temp_files, zip_files, png_folders, built, errors, fault,
                   clock>>

\* "Generate PDF" pressed
ClickGeneratePDF == StartRun("pdf")

\* "Generate PNGs" pressed
ClickGeneratePNG == StartRun("png")

\* a generator call is over: its locals, and the model's copy of the flow it
\* handed to doc.build, are gone
GeneratorLeft ==
    /\ line_num' = 0
    /\ first_page' = TRUE
    /\ story' = <<>>
    /\ layout' = <<>>
    /\ document' = <<>>

\* The next size of the run: a generator is called with its width and height.
\* generate_pngs_from_csv first creates the temporary PDF the generator writes to.
NextSize ==
    /\ pc \in {"sizes", "done"}
    /\ size_idx < Len(SizesOfRun(target, generate_all_sizes, page_size))
    /\ size_idx' = size_idx + 1
    /\ page_size' = SizesOfRun(target, generate_all_sizes, page_size)[size_idx + 1]
    /\ IF target = "png"
       THEN /\ disk' = disk \cup {temp_pdf_path(size_idx + 1)}
            /\ temp_files' = Append(temp_files, temp_pdf_path(size_idx + 1))
       ELSE UNCHANGED <<disk, temp_files>>
    /\ registrations' = registrations \o RegisteredFonts(document_type, fonts, clock)
    /\ pc' = "gen"
    /\ GeneratorLeft
    /\ UNCHANGED <<document_type, page_position, fonts, validation_msg, header, file,
                   csv_valid, target, warnings, png_files, generate_all_sizes,
                   zip_files, png_folders, built, errors, fault,
                   clock, archive>>

\* mutant: the first_page flag is ignored, every record is preceded by a break
LeadingBreak_always(first) == <<PageBreak>>

\* "if not first_page: story.append(PageBreak())"
LeadingBreak(first) == IF first THEN <<>> ELSE <<PageBreak>>

\* mutant: a row whose attribution is empty is skipped too
AuthoredSkip_author(row) ==
    Len(row) < 2 \/ Strip(row[1]) = <<>> \/ Strip(row[2]) = <<>>

\* mutant: only rows with fewer than two fields are skipped, a row whose quote
\* text is empty is emitted
AuthoredSkip_short(row) == Len(row) < 2

\* the rows create_authored_quotes_pdf_from_csv skips ("continue")
AuthoredSkip(row) == Len(row) < 2 \/ Strip(row[1]) = <<>>

\* mutant: only the empty line is skipped, a line of spaces is not
QuoteSkip_untrimmed(line) == line = <<>>

\* the lines create_quotes_pdf_from_csv skips ("continue")
QuoteSkip(line) == Strip(line) = <<>>

\* mutant: the estimated height is carried over from one record to the next
\* (a running total that is not reset)
Iterate_carried(elems, place, warned) ==
    LET r == AppendUntilRaise(story, elems)
        carried == IF layout = <<>> THEN 0 ELSE layout[Len(layout)].content_height
    IN  /\ story' = r[1]
        /\ pc' = IF r[2] THEN "failed" ELSE "gen"
        /\ first_page' = FALSE
        /\ layout' = Append(layout,
                            [place EXCEPT !.content_height = @ + carried])
        /\ warnings' = warnings + (IF warned THEN 1 ELSE 0)

\* what one iteration of a generator's loop leaves behind
Iterate(elems, place, warned) ==
    LET r == AppendUntilRaise(story, elems)
    IN  /\ story' = r[1]
        /\ pc' = IF r[2] THEN "failed" ELSE "gen"
        /\ first_page' = FALSE
        /\ layout' = Append(layout, place)
        /\ warnings' = warnings + (IF warned THEN 1 ELSE 0)

\* the placement call of one record: its arguments and its result, with the
\* texts and the wrapped line counts the height estimator was given and
\* whether the estimator fell back
Placement(pos, area, h, sp, extra, sf, texts, lines, warned) ==
    [position |-> pos, content_area_height |-> area, content_height |-> h,
     spacer_amount |-> sp, extra_margin |-> extra, scale |-> sf,
     texts |-> texts, lines |-> lines, warned |-> warned]

\* csv.DictReader's row for the fields of one line
DictRow(hd, fields) ==
    LET at(name) == Min({i \in 1..Len(hd) : hd[i] = name})
        val(name) == IF name \in Range(hd) /\ at(name) <= Len(fields)
                     THEN fields[at(name)] ELSE None
    IN  [term |-> val("term"), pronunciation |-> val("pronunciation"),
         type |-> val("type"), definition |-> val("definition")]

\* mutant: the definition is emitted before the separator line
EntryFlowables_line_last(row, spacer_amount) ==
    <<Spacer(spacer_amount),
      Paragraph(Lower(row.term), "title"),
      Paragraph(PronunciationText(row), "pronunciation"),
      Paragraph(row.definition, "definition"),
      LineFlowable>>

\* the flowables create_pdf_from_csv appends for one row, after the page break
EntryFlowables(row, spacer_amount) ==
    <<Spacer(spacer_amount),
      Paragraph(Lower(row.term), "title"),
      Paragraph(PronunciationText(row), "pronunciation"),
      LineFlowable,
      Paragraph(row.definition, "definition")>>

\* the variables a generator's loop leaves alone
LoopUnchanged ==
    UNCHANGED <<document_type, page_position, page_size, fonts, validation_msg,
                header, file, csv_valid, target, document, png_files,
                generate_all_sizes, size_idx, disk, temp_files, zip_files,
                png_folders, built, errors, fault,
                   clock, registrations, archive>>

\* create_pdf_from_csv: one line of the file read by csv.DictReader
DictionaryStep ==
    /\ pc = "gen"
    /\ document_type = "Dictionary"
    /\ line_num < Len(file)
    /\ line_num' = line_num + 1
    /\ LET fields == CsvRow(file[line_num + 1])
           sf == scale_factor(page_size)
       IN  IF fields = <<>>
           THEN \* DictReader skips rows without fields
                UNCHANGED <<pc, first_page, story, layout, warnings>>
           ELSE \E w \in WrapChoices :
                LET row == DictRow(header, fields)
                    est == calculate_content_height(row, w, sf, DictionaryFontNames(fonts))
                    spacer_amount ==
                        get_end_positioned_spacer_amount(page_position,
                            page_height(page_size), scaled_margin(sf), est[1], sf)
                    elems == LeadingBreak(first_page) \o EntryFlowables(row, spacer_amount)
                IN  Iterate(elems,
                            Placement(page_position,
                                      page_height(page_size) - 2 * scaled_margin(sf),
                                      est[1], spacer_amount,
                                      Pt(IntScaled(20, sf)), sf,
                                      <<row.term, row.pronunciation, row.type,
                                        row.definition>>, w, est[2]),
                            est[2])
    /\ LoopUnchanged

\* create_quotes_pdf_from_csv: one line of the file
QuoteStep ==
    /\ pc = "gen"
    /\ document_type = "Quotes"
    /\ line_num < Len(file)
    /\ line_num' = line_num + 1
    /\ LET quote_text == Strip(file[line_num + 1])
           sf == quote_scale_factor(page_size)
       IN  IF QuoteSkip(file[line_num + 1])
           THEN UNCHANGED <<pc, first_page, story, layout, warnings>>
           ELSE \E w \in WrapChoices :
                LET est == calculate_quote_height(quote_text, w, sf, QuoteFontNames(fonts))
                    spacer_amount ==
                        get_quote_spacer_amount(page_position,
                            page_height(page_size), scaled_margin(sf), est[1], sf)
                    elems == LeadingBreak(first_page)
                             \o <<Spacer(spacer_amount),
                                  Paragraph(quote_text, "quote")>>
                IN  Iterate(elems,
                            Placement(page_position,
                                      page_height(page_size) - 2 * scaled_margin(sf),
                                      est[1], spacer_amount,
                                      Pt(IntScaled(20, sf)), sf,
                                      <<quote_text>>, w, est[2]),
                            est[2])
    /\ LoopUnchanged

\* create_authored_quotes_pdf_from_csv: one row of csv.reader
AuthoredStep ==
    /\ pc = "gen"
    /\ document_type = "Authored Quotes"
    /\ line_num < Len(file)
    /\ line_num' = line_num + 1
    /\ LET row == CsvRow(file[line_num + 1])
           sf == authored_scale_factor(page_size)
       IN  IF AuthoredSkip(row)
           THEN UNCHANGED <<pc, first_page, story, layout, warnings>>
           ELSE \E w \in WrapChoices :
                LET quote_text == Strip(row[1])
                    author_text == Strip(row[2])
                    est == calculate_authored_quote_height(quote_text, author_text, w, sf,
                                                           AuthoredFontNames(fonts))
                    spacer_amount ==
                        get_authored_quote_spacer_amount(page_position,
                            page_height(page_size), scaled_margin(sf), est[1], sf)
                    elems == LeadingBreak(first_page)
                             \o <<Spacer(spacer_amount),
                                  Paragraph(quote_text, "quote"),
                                  Spacer(Pt(IntScaled(24, sf))),
                                  Paragraph(author_text, "author")>>
                IN  Iterate(elems,
                            Placement(page_position,
                                      page_height(page_size) - 2 * scaled_margin(sf),
                                      est[1], spacer_amount,
                                      Pt(IntScaled(20, sf)), sf,
                                      <<quote_text, author_text>>, w, est[2]),
                            est[2])
    /\ LoopUnchanged

\* the pages of a flow: its maximal runs of elements between page breaks
RECURSIVE SplitPages(_, _)
SplitPages(flow, cur) ==
    IF flow = <<>> THEN <<cur>>
    ELSE IF Head(flow).kind = "PageBreak"
         THEN <<cur>> \o SplitPages(Tail(flow), <<>>)
         ELSE SplitPages(Tail(flow), Append(cur, Head(flow)))

Pages(flow) == IF flow = <<>> THEN <<>> ELSE SplitPages(flow, <<>>)

\* doc.build(story) at the end of a generator: the engine writes the document
\* to the output path, or raises (a layout error, a failed write)
Build ==
    /\ pc = "gen"
    /\ line_num = Len(file)
    /\ \E raised \in BOOLEAN :
         /\ raised => ~fault
         /\ IF raised
            THEN /\ pc' = "failed"
                 /\ fault' = TRUE
                 /\ GeneratorLeft
                 /\ UNCHANGED <<built, disk>>
            ELSE /\ document' = story
                 /\ built' = Append(built, <<page_size, Len(Pages(story))>>)
                 /\ pc' = IF target = "pdf" THEN "built" ELSE "convert"
                 /\ disk' = IF target = "pdf"
                            THEN disk \cup {output_path(size_idx)} ELSE disk
                 /\ fault' = fault
                 /\ UNCHANGED <<line_num, first_page, story, layout>>
    /\ UNCHANGED <<document_type, page_position, page_size, fonts, validation_msg,
                   header, file, csv_valid, target,
                   warnings, png_files, generate_all_sizes, size_idx, temp_files,
                   zip_files, png_folders, errors,
                   clock, registrations, archive>>

\* all sizes: "if success and os.path.exists(output_path): zip_files.append(...)"
CollectPdf ==
    /\ pc = "built"
    /\ generate_all_sizes
    /\ zip_files' = IF output_path(size_idx) \in disk
                    THEN Append(zip_files, output_path(size_idx)) ELSE zip_files
    /\ pc' = "sizes"
    /\ GeneratorLeft
    /\ UNCHANGED <<document_type, page_position, page_size, fonts, validation_msg,
                   header, file, csv_valid, target,
                   warnings, png_files, generate_all_sizes, size_idx, disk,
                   temp_files, png_folders, built, errors, fault,
                   clock, registrations, archive>>

\* single size: "if success:" the document is offered for download
DownloadPdf ==
    /\ pc = "built"
    /\ ~generate_all_sizes
    /\ pc' = "finally"
    /\ GeneratorLeft
    /\ UNCHANGED <<document_type, page_position, page_size, fonts, validation_msg,
                   header, file, csv_valid, target,
                   warnings, png_files, generate_all_sizes, size_idx, disk,
                   temp_files, zip_files, png_folders, built, errors, fault,
                   clock, registrations, archive>>

\* the files a sequence of paths names
PathsOf(paths, n) == {paths[k] : k \in 1..n}

\* all sizes, after the loop: the collected PDFs are written to the archive one
\* by one and each is unlinked after its write; zipf.write may raise at the
\* j-th file (j = Len(zip_files) + 1: no write raises)
ArchivePdfs ==
    /\ pc = "sizes"
    /\ target = "pdf"
    /\ generate_all_sizes
    /\ size_idx = Len(SizesOfRun(target, generate_all_sizes, page_size))
    /\ IF zip_files # <<>>
       THEN \E j \in 1..(Len(zip_files) + 1) :
              /\ j <= Len(zip_files) => ~fault
              /\ IF j <= Len(zip_files)
                 THEN /\ disk' = (disk \ PathsOf(zip_files, j - 1)) \cup {zip_path}
                      /\ pc' = "failed"
                      /\ fault' = TRUE
                 ELSE /\ disk' = disk \ PathsOf(zip_files, Len(zip_files))
                      /\ pc' = "finally"
                      /\ fault' = fault
              /\ UNCHANGED errors
       ELSE /\ errors' = Append(errors, "no_output")
            /\ pc' = "finally"
            /\ UNCHANGED <<disk, fault>>
    /\ UNCHANGED <<document_type, page_position, page_size, fonts, validation_msg,
                   header, file, csv_valid, target, line_num, first_page, story, layout,
                   warnings, document, png_files, generate_all_sizes, size_idx,
                   temp_files, zip_files, png_folders, built,
                   clock, registrations, archive>>

\* convert_pdf_to_png(temp_pdf_path, folder_name): the document is opened, the
\* folder is made and the pages are saved one by one.  saved = -1: fitz.open
\* raises, before the folder is made; 0 <= saved < total_pages: saving page
\* saved + 1 raises.  Either way the error is displayed and [] is returned.
\* Then "if png_files: png_folders.append(...)".
Convert ==
    /\ pc = "convert"
    /\ LET total_pages == Len(Pages(document))
       IN  \E saved \in -1..total_pages :
             /\ saved < total_pages => ~fault
             /\ disk' = IF saved = -1 THEN disk
                        ELSE disk \cup {folder_name(size_idx)}
                                  \cup {png_path(size_idx, k) : k \in 1..saved}
             /\ png_files' = IF saved = total_pages THEN total_pages ELSE 0
             /\ errors' = IF saved < total_pages THEN Append(errors, "convert") ELSE errors
             /\ fault' = (fault \/ saved < total_pages)
             /\ png_folders' = IF saved = total_pages /\ total_pages > 0
                               THEN Append(png_folders, <<size_idx, total_pages>>)
                               ELSE png_folders
    /\ pc' = "done"
    /\ UNCHANGED <<document_type, page_position, page_size, fonts, validation_msg,
                   header, file, csv_valid, target, line_num, first_page, story, layout,
                   warnings, document, generate_all_sizes, size_idx, temp_files,
                   zip_files, built,
                   clock, registrations, archive>>

\* "Clean up temporary PDF files" at the end of generate_pngs_from_csv
CleanupTempFiles(d, files) == d \ PathsOf(files, Len(files))

\* mutant: the except clause re-raises without unlinking the temporary PDFs
CleanupOnError_none(d, files) == d

\* "Clean up on error" in the except clause of generate_pngs_from_csv
CleanupOnError(d, files) == d \ PathsOf(files, Len(files))

\* generate_pngs_from_csv returns png_folders
ReturnPngs ==
    /\ pc = "done"
    /\ target = "png"
    /\ size_idx = Len(SizesOfRun(target, generate_all_sizes, page_size))
    /\ disk' = CleanupTempFiles(disk, temp_files)
    /\ pc' = "returned"
    /\ GeneratorLeft
    /\ UNCHANGED <<document_type, page_position, page_size, fonts, validation_msg,
                   header, file, csv_valid, target,
                   warnings, png_files, generate_all_sizes, size_idx,
                   temp_files, zip_files, png_folders, built, errors, fault,
                   clock, registrations, archive>>

\* generate_pngs_from_csv: "except Exception as e: ... raise e"
GeneratePngsExcept ==
    /\ pc = "failed"
    /\ target = "png"
    /\ disk' = CleanupOnError(disk, temp_files)
    /\ pc' = "raised"
    /\ GeneratorLeft
    /\ UNCHANGED <<document_type, page_position, page_size, fonts, validation_msg,
                   header, file, csv_valid, target,
                   warnings, png_files, generate_all_sizes, size_idx,
                   temp_files, zip_files, png_folders, built, errors, fault,
                   clock, registrations, archive>>

\* shutil.rmtree(folder_name, ignore_errors=True)
RemoveTree(d, i) == {f \in d : ~(f.kind \in {"folder", "png"} /\ f.size = i)}

\* the disk after the folders of the first n entries of png_folders were removed
RECURSIVE RemoveTrees(_, _, _)
RemoveTrees(d, folders, n) ==
    IF n = 0 THEN d ELSE RemoveTree(RemoveTrees(d, folders, n - 1), folders[n][1])

\* os.walk over the first n folders of png_folders: every file ending in
\* .png found in them is written to the archive
WalkFolders(d, folders, n) ==
    {f \in d : f.kind = "png" /\ \E k \in 1..n : f.size = folders[k][1]}

\* "Generate PNGs" handler after generate_pngs_from_csv returned: each folder
\* is written to the archive and removed after it; a write may raise in the
\* j-th folder (j = Len(png_folders) + 1: no write raises)
ArchivePngs ==
    /\ pc = "returned"
    /\ IF png_folders # <<>>
       THEN \E j \in 1..(Len(png_folders) + 1) :
              /\ j <= Len(png_folders) => ~fault
              /\ IF j <= Len(png_folders)
                 THEN /\ disk' = RemoveTrees(disk, png_folders, j - 1) \cup {zip_path}
                      /\ archive' = WalkFolders(disk, png_folders, j - 1)
                      /\ pc' = "raised"
                      /\ fault' = TRUE
                 ELSE /\ disk' = RemoveTrees(disk, png_folders, Len(png_folders))
                      /\ archive' = WalkFolders(disk, png_folders, Len(png_folders))
                      /\ pc' = "finally"
                      /\ fault' = fault
              /\ UNCHANGED errors
       ELSE /\ errors' = Append(errors, "no_output")
            /\ pc' = "finally"
            /\ UNCHANGED <<disk, fault, archive>>
    /\ UNCHANGED <<document_type, page_position, page_size, fonts, validation_msg,
                   header, file, csv_valid, target, line_num, first_page, story, layout,
                   warnings, document, png_files, generate_all_sizes, size_idx,
                   temp_files, zip_files, png_folders, built,
                   clock, registrations>>

\* either handler: "except Exception as e: ... status_placeholder.error(...)"
DriverExcept ==
    /\ \/ pc = "failed" /\ target = "pdf"
       \/ pc = "raised"
    /\ errors' = Append(errors, "exception")
    /\ pc' = "finally"
    /\ GeneratorLeft
    /\ UNCHANGED <<document_type, page_position, page_size, fonts, validation_msg,
                   header, file, csv_valid, target,
                   warnings, png_files, generate_all_sizes, size_idx, disk,
                   temp_files, zip_files, png_folders, built, fault,
                   clock, registrations, archive>>

\* either handler: "finally: ... os.unlink(temp_csv_path)"
DriverFinally ==
    /\ pc = "finally"
    /\ disk' = disk \ {temp_csv_path}
    /\ pc' = "ended"
    /\ UNCHANGED <<document_type, page_position, page_size, fonts, validation_msg,
                   header, file, csv_valid, target, line_num, first_page, story, layout,
                   warnings, document, png_files, generate_all_sizes, size_idx,
                   temp_files, zip_files, png_folders, built, errors, fault,
                   clock, registrations, archive>>

\* the next script run starts from a fresh uploader, in a fresh process with a
\* clean working directory (RerunInPlace is the run that inherits the disk)
Rerun ==
    /\ pc \in {"loaded", "ended"}
    /\ document_type' = "Dictionary"
    /\ page_position' = "bottom"
    /\ page_size' = <<110, 140>>
    /\ fonts' = <<"Times-Bold", "Helvetica-Bold", "Helvetica">>
    /\ validation_msg' = "none"
    /\ header' = <<>>
    /\ file' = <<>>
    /\ csv_valid' = FALSE
    /\ pc' = "idle"
    /\ target' = "none"
    /\ line_num' = 0
    /\ first_page' = TRUE
    /\ story' = <<>>
    /\ layout' = <<>>
    /\ warnings' = 0
    /\ document' = <<>>
    /\ png_files' = 0
    /\ generate_all_sizes' = FALSE
    /\ size_idx' = 0
    /\ disk' = {}
    /\ temp_files' = <<>>
    /\ zip_files' = <<>>
    /\ png_folders' = <<>>
    /\ built' = <<>>
    /\ errors' = <<>>
    /\ fault' = FALSE
    /\ clock' = 1
    /\ registrations' = <<>>
    /\ archive' = {}

Next ==
    \/ Upload
    \/ ClickGeneratePDF
    \/ ClickGeneratePNG
    \/ NextSize
    \/ DictionaryStep
    \/ QuoteStep
    \/ AuthoredStep
    \/ Build
    \/ CollectPdf
    \/ DownloadPdf
    \/ ArchivePdfs
    \/ Convert
    \/ ReturnPngs
    \/ GeneratePngsExcept
    \/ ArchivePngs
    \/ DriverExcept
    \/ DriverFinally
    \/ Rerun

Spec == Init /\ [][Next]_vars

----------------------------------------------------------------------------
(* Properties *)

\* a document has been produced
Produced == pc \in {"built", "convert", "done"}

IsBreak(e) == e.kind = "PageBreak"

\* the leading spacer of a record: a spacer directly followed by the record's
\* first paragraph (the term, or the quote)
IsLeadingSpacer(flow, i) ==
    /\ flow[i].kind = "Spacer"
    /\ i < Len(flow)
    /\ flow[i + 1].kind = "Paragraph"
    /\ flow[i + 1].style \in {"title", "quote"}

NumBreaks(flow) == Cardinality({i \in 1..Len(flow) : IsBreak(flow[i])})

NumRecords(flow) == Cardinality({i \in 1..Len(flow) : IsLeadingSpacer(flow, i)})

BreaksBetweenRecords(flow) ==
    /\ \A i \in 1..Len(flow) :
         IsLeadingSpacer(flow, i) =>
            IF \E j \in 1..(i - 1) : IsLeadingSpacer(flow, j)
            THEN IsBreak(flow[i - 1])
            ELSE i = 1
    /\ \A i \in 1..Len(flow) :
         IsBreak(flow[i]) => i < Len(flow) /\ IsLeadingSpacer(flow, i + 1)
    /\ NumBreaks(flow) = (IF NumRecords(flow) = 0 THEN 0 ELSE NumRecords(flow) - 1)

\* C1: in every generator, after every completed iteration and in the flow
\* handed to doc.build, a page break stands immediately before the leading
\* spacer of every record but the first, none before the first record and none
\* after the last; the number of breaks is the number of records - 1 (0 if none).
C1_PageBreaks ==
    /\ pc = "gen" => BreaksBetweenRecords(story) /\ NumRecords(story) = Len(layout)
    /\ Produced => BreaksBetweenRecords(document) /\ NumRecords(document) = Len(layout)

\* a produced Authored Quotes document of two records and one break
C1_Witness ==
    /\ pc = "built"
    /\ NumRecords(document) = 2
    /\ NumBreaks(document) = 1
    /\ document_type = "Authored Quotes"

\* the texts of the paragraphs of one page, in order
PageTexts(page) ==
    LET paras == SelectSeq(page, LAMBDA e : e.kind = "Paragraph")
    IN  [i \in 1..Len(paras) |-> paras[i].text]

\* the fields of one line: the line cut at its commas
Fields(line) == CsvRow(line)

\* the valid records of an input, in source order, each as the texts its page
\* is to carry
RECURSIVE ValidRecords(_, _, _)
ValidRecords(dt, hd, f) ==
    IF f = <<>> THEN <<>>
    ELSE LET line == Head(f)
             rest == ValidRecords(dt, hd, Tail(f))
         IN  IF dt = "Quotes"
             THEN IF Strip(line) = <<>> THEN rest ELSE <<<<Strip(line)>>>> \o rest
             ELSE IF dt = "Authored Quotes"
             THEN IF Len(Fields(line)) < 2 \/ Strip(Fields(line)[1]) = <<>>
                  THEN rest
                  ELSE <<<<Strip(Fields(line)[1]), Strip(Fields(line)[2])>>>> \o rest
             ELSE IF line = <<>> THEN rest
                  ELSE LET row == DictRow(hd, Fields(line))
                       IN  <<<<Lower(row.term), PronunciationText(row),
                               row.definition>>>> \o rest

C5_MissingColumnsBlockRun ==
    (document_type = "Dictionary" /\ pc # "idle"
        /\ \E c \in {"term", "pronunciation", "type", "definition"} : c \notin Range(header))
    => /\ pc = "loaded"
       /\ ~csv_valid
       /\ validation_msg = "error"
       /\ story = <<>>
       /\ document = <<>>
       /\ png_files = 0
       /\ ~ENABLED ClickGeneratePDF
       /\ ~ENABLED ClickGeneratePNG

\* a Dictionary file without the type column has been validated and refused
C5_Witness ==
    /\ pc = "loaded"
    /\ document_type = "Dictionary"
    /\ "type" \notin Range(header)
    /\ "term" \in Range(header)
    /\ Len(file) > 0
    /\ ~csv_valid

\* the placement calls made so far by the generator that is running, or has
\* just raised (a placement is recorded by the iteration that makes it, and
\* the generator's locals are gone once the call is over)
Placements ==
    IF pc \in {"gen", "failed"} THEN {layout[i] : i \in 1..Len(layout)} ELSE {}

\* C6: every spacer any of the three placement functions returned is >= 0,
\* whatever the position and the heights; when the estimated height exceeds
\* the content-area height the spacer is exactly 0.
C6_SpacerNonNegative ==
    \A p \in Placements :
        /\ p.spacer_amount >= 0
        /\ p.content_height > p.content_area_height => p.spacer_amount = 0

\* a bottom placement in Quotes mode of a block taller than a (non-negative)
\* content area
C6_Witness ==
    /\ document_type = "Quotes"
    /\ \E p \in Placements :
          /\ p.position = "bottom"
          /\ p.content_area_height >= 0
          /\ p.content_height > p.content_area_height
          /\ p.spacer_amount = 0

\* C7: middle placement centres the block: when the estimated height H is at
\* most the content-area height A, spacer + H + spacer = A.
C7_MiddleSymmetry ==
    \A p \in Placements :
        (p.position = "middle" /\ p.content_height <= p.content_area_height)
        => p.spacer_amount + p.content_height + p.spacer_amount = p.content_area_height

\* a middle placement in Dictionary mode with room to spare
C7_Witness ==
    /\ document_type = "Dictionary"
    /\ \E p \in Placements :
          /\ p.position = "middle"
          /\ p.content_height < p.content_area_height
          /\ p.spacer_amount > 0

\* C8: bottom placement is conservative: when H <= A - e (e the extra bottom
\* margin), the spacer is at most A - H.
C8_BottomConservative ==
    \A p \in Placements :
        (p.position = "bottom"
            /\ p.content_height <= p.content_area_height - p.extra_margin)
        => p.spacer_amount <= p.content_area_height - p.content_height

\* a bottom placement in Authored Quotes mode with H < A - e and e > 0
C8_Witness ==
    /\ document_type = "Authored Quotes"
    /\ \E p \in Placements :
          /\ p.position = "bottom"
          /\ p.extra_margin > 0
          /\ p.content_height < p.content_area_height - p.extra_margin
          /\ p.spacer_amount > 0

\* C9: position "top" gives spacer 0, and so does every position other than
\* "top", "middle" and "bottom", whatever the heights.
C9_TopAndFallback ==
    \A p \in Placements :
        p.position \notin {"middle", "bottom"} => p.spacer_amount = 0

\* the position "bottom-left" was placed in Dictionary mode with room to spare
\* below the block
C9_Witness ==
    /\ document_type = "Dictionary"
    /\ \E p \in Placements :
          /\ p.position = "bottom-left"
          /\ p.content_height < p.content_area_height - p.extra_margin
          /\ p.spacer_amount = 0

\* the page is on the 11:14 baseline ratio
OnRatio(size) == size[1] * baseline_height = size[2] * baseline_width

\* C10: the scale every generator uses is (width/11 + height/14) / 2; on the
\* 11:14 ratio it equals width/11 and height/14, off the ratio it lies strictly
\* between them.
C10_ScaleBetween ==
    \A p \in Placements :
        LET ws == <<page_size[1], 110>>
            hs == <<page_size[2], 140>>
        IN  /\ REq(p.scale, <<14 * page_size[1] + 11 * page_size[2], 3080>>)
            /\ OnRatio(page_size) => REq(p.scale, ws) /\ REq(p.scale, hs)
            /\ ~OnRatio(page_size) =>
                  \/ RLess(ws, p.scale) /\ RLess(p.scale, hs)
                  \/ RLess(hs, p.scale) /\ RLess(p.scale, ws)

\* a record was laid out in Quotes mode on an A0 page, which is off the ratio
C10_Witness ==
    /\ document_type = "Quotes"
    /\ page_size = <<331, 468>>
    /\ ~OnRatio(page_size)
    /\ layout # <<>>

\* the fallback of the three estimators: 8 * scale_factor * inch
FallbackHeight(sf) == ScaledInchUnits(16, sf)

\* C11: when the height estimator falls back (measuring the record raised), it
\* returns 8 x scale inches and a warning is displayed, and the run goes on:
\* the iteration completes with the record's page in the flow, so the run is
\* never in its failed state after a fallback.
C11_FallbackKeepsRunGoing ==
    /\ \A p \in Placements : p.warned => p.content_height = FallbackHeight(p.scale)
    /\ (\E p \in Placements : p.warned) =>
          /\ pc # "failed"
          /\ NumRecords(story) = Len(layout)

\* the "sum of the wrapped heights and the spacing and leading constants" of a
\* record whose paragraphs wrap to w lines, for a document type at scale sf
BaseHeight(dt, w, sf) ==
    IF dt = "Dictionary"
    THEN Pt(w[1] * IntScaled(84, sf) + IntScaled(48, sf)
            + w[2] * (IntScaled(28, sf) + IntScaled(4, sf)) + IntScaled(36, sf)
            + IntScaled(4, sf) + IntScaled(54, sf)
            + w[3] * (IntScaled(28, sf) + IntScaled(12, sf))
            + IntScaled(12, sf) + IntScaled(4, sf))
    ELSE IF dt = "Quotes"
    THEN Pt(w[1] * (IntScaled(48, sf) + IntScaled(12, sf)) + IntScaled(12, sf))
    ELSE Pt(w[1] * (IntScaled(48, sf) + IntScaled(12, sf)) + IntScaled(24, sf)
            + w[2] * (IntScaled(24, sf) + IntScaled(4, sf))
            + IntScaled(12, sf) + IntScaled(4, sf))

\* the fonts and sizes of the paragraphs of a document type
StyleFonts(dt, sel) ==
    IF dt = "Dictionary" THEN DictionaryFontNames(sel)
    ELSE IF dt = "Quotes" THEN QuoteFontNames(sel) ELSE AuthoredFontNames(sel)

StyleSizes(dt) ==
    IF dt = "Dictionary" THEN <<84, 28, 28>>
    ELSE IF dt = "Quotes" THEN <<48>> ELSE <<48, 24>>

\* the text whose length decides the long-text correction, and the text
\* searched for non-ASCII characters
LongText(dt, texts) == IF dt = "Dictionary" THEN texts[4] ELSE texts[1]

SearchedText(dt, texts) ==
    IF dt = "Dictionary"
    THEN Fmt(texts[1]) \o <<<<32, 1>>>> \o Fmt(texts[2]) \o <<<<32, 1>>>> \o Fmt(texts[4])
    ELSE IF dt = "Quotes" THEN texts[1]
    ELSE texts[1] \o <<<<32, 1>>>> \o texts[2]

RECURSIVE SumSeq(_)
SumSeq(q) == IF q = <<>> THEN 0 ELSE Head(q) + SumSeq(Tail(q))

\* the three corrections of a placement: custom-font, long-text, non-ASCII
Corrections(dt, sel, p) ==
    LET fn == StyleFonts(dt, sel)
        sz == StyleSizes(dt)
    IN  <<SumSeq([i \in 1..Len(fn) |->
                     IF fn[i].stamp # 0 THEN Pt(IntScaled(sz[i], p.scale)) \div 5 ELSE 0]),
          IF StrLen(LongText(dt, p.texts)) \div 80 > 2
          THEN Pt((StrLen(LongText(dt, p.texts)) \div 80) * IntScaled(8, p.scale)) ELSE 0,
          IF HasNonAscii(SearchedText(dt, p.texts))
          THEN Pt(IntScaled(6, p.scale)) ELSE 0>>

\* C12: whenever measurement succeeded, the estimate is 1.10 x (base height +
\* custom-font + long-text + non-ASCII corrections), every correction is >= 0,
\* and so the estimate is at least the base height (the wrapped heights plus
\* the spacing and leading constants), in all three estimators.
C12_EstimateCoversContent ==
    \A p \in Placements :
        ~p.warned =>
            LET base == BaseHeight(document_type, p.lines, p.scale)
                corr == Corrections(document_type, fonts, p)
            IN  /\ \A i \in 1..3 : corr[i] >= 0
                /\ p.content_height % 11 = 0
                /\ (p.content_height \div 11) * 10 = base + corr[1] + corr[2] + corr[3]
                /\ p.content_height >= base

\* a Dictionary record measured with custom fonts, a long definition and a
\* non-ASCII term: all three corrections are positive
C12_Witness ==
    /\ document_type = "Dictionary"
    /\ \E p \in Placements :
          /\ ~p.warned
          /\ \A i \in 1..3 : Corrections(document_type, fonts, p)[i] > 0
          /\ p.content_height > BaseHeight(document_type, p.lines, p.scale)

\* the estimator of a document type, applied to the texts of a record
Estimate(dt, texts, w, sf, sel) ==
    IF dt = "Dictionary"
    THEN calculate_content_height(
             [term |-> texts[1], pronunciation |-> texts[2], type |-> texts[3],
              definition |-> texts[4]], w, sf, DictionaryFontNames(sel))
    ELSE IF dt = "Quotes"
    THEN calculate_quote_height(texts[1], w, sf, QuoteFontNames(sel))
    ELSE calculate_authored_quote_height(texts[1], texts[2], w, sf, AuthoredFontNames(sel))

\* non-whitespace text to append:  "b"   e-acute   "x" * 300   "<"
Suffixes == {<<<<98, 1>>>>, <<<<233, 1>>>>, <<<<120, 300>>>>, <<<<60, 1>>>>}

\* the texts of a record with s appended to field i
Appended(texts, i, s) == [texts EXCEPT ![i] = texts[i] \o s]

\* the placement call of the record emitted last, while the generator's loop
\* runs or has just raised (every placement of a run is the last one in the
\* state its iteration leaves)
LastPlacement ==
    IF pc \in {"gen", "failed"} /\ layout # <<>> THEN {layout[Len(layout)]} ELSE {}

\* the engine reports no fewer lines for the longer text
NoFewerLines(w, w2) == \A k \in 1..3 : w2[k] >= w[k]

RunEnded == pc = "ended"

\* C14: when a PNG run ends, however it went (a later size's generation
\* raising, a conversion yielding no images, the archiving failing), none of
\* the per-size output folders created in the run, and none of their images,
\* is left on disk.
C14_FoldersRemoved ==
    (RunEnded /\ target = "png") => \A f \in disk : f.kind \notin {"folder", "png"}

\* generate_pngs_from_csv has returned or raised
PngsLeft == target = "png" /\ pc \in {"returned", "raised", "finally", "ended"}

\* C15: once generate_pngs_from_csv has returned or raised, none of the
\* temporary PDFs it created is left on disk, in single-size and all-sizes
\* runs, whichever size's generation or conversion failed.
C15_TempPdfsDeleted ==
    PngsLeft => /\ \A f \in disk : f.kind # "tmp_pdf"
                /\ \A k \in 1..Len(temp_files) : temp_files[k] \notin disk

\* an all-sizes PNG run in which the second size's document failed to build
\* after the first size was converted: generate_pngs_from_csv raised with two
\* temporary PDFs created, and both are gone
C15_Witness ==
    /\ pc = "raised"
    /\ target = "png"
    /\ generate_all_sizes
    /\ fault
    /\ size_idx = 2
    /\ Len(temp_files) = 2
    /\ Len(png_folders) = 1
    /\ \A f \in disk : f.kind # "tmp_pdf"

\* C16: when a PDF all-sizes run ends, however it went (all five sizes built,
\* a later size's generation failing, the archiving failing), none of the
\* per-size PDFs written in the run is left on disk.
C16_SizePdfsRemoved ==
    (RunEnded /\ target = "pdf" /\ generate_all_sizes) => \A f \in disk : f.kind # "pdf"

\* C17: when the driver has reported the exception that ended a PDF or PNG
\* run, the temporary copy of the uploaded file has already been removed.
C17_ReleaseBeforeReport ==
    (\E k \in 1..Len(errors) : errors[k] = "exception") => temp_csv_path \notin disk

\* the five standard sizes, in tenths of an inch
FiveSizes == <<<<110, 140>>, <<160, 200>>, <<180, 240>>, <<240, 360>>, <<331, 468>>>>

C19_PartialImagesCleaned ==
    (pc = "done" /\ errors # <<>> /\ errors[Len(errors)] = "convert") =>
        /\ \A f \in disk : ~(f.kind = "png" /\ f.size = size_idx)
        /\ \A j \in 1..Len(png_folders) : png_folders[j][1] # size_idx

\* the kinds of the elements of a page, a paragraph named by its style
BlockShape(page) ==
    [i \in 1..Len(page) |->
        IF page[i].kind = "Paragraph" THEN page[i].style ELSE page[i].kind]

\* every page is: leading spacer, term, pronunciation, separator line,
\* definition, the spacer being the one the placement call returned
EntryBlocks(flow) ==
    \A k \in 1..Len(Pages(flow)) :
        /\ BlockShape(Pages(flow)[k])
              = <<"Spacer", "title", "pronunciation", "Line", "definition">>
        /\ k <= Len(layout)
        /\ Pages(flow)[k][1].height = layout[k].spacer_amount

\* C20: in Dictionary mode the content block emitted for every record is, in
\* this order: leading spacer, term paragraph, pronunciation paragraph,
\* separator line, definition paragraph.
C20_EntryOrder ==
    document_type = "Dictionary" =>
        /\ pc = "gen" => EntryBlocks(story)
        /\ Produced => EntryBlocks(document)

\* a produced Dictionary document of two entries
C20_Witness ==
    /\ pc = "built"
    /\ document_type = "Dictionary"
    /\ Len(Pages(document)) = 2
    /\ EntryBlocks(document)

----------------------------------------------------------------------------
(* Per-record skips *)

\* the records the quote generators pass over: a line that is blank after
\* trimming (Quotes), a row with fewer than two fields or with an empty first
\* field after trimming (Authored Quotes)
SkippedRecord(dt, line) ==
    IF dt = "Quotes" THEN Strip(line) = <<>>
    ELSE Len(Fields(line)) < 2 \/ Strip(Fields(line)[1]) = <<>>

\* a quote generator reads a record it passes over
SkipStep ==
    /\ pc = "gen"
    /\ document_type \in {"Quotes", "Authored Quotes"}
    /\ line_num' = line_num + 1
    /\ SkippedRecord(document_type, file[line_num + 1])

\* C21 as stated: every per-record skip (a blank quote line, an authored-quote
\* row with fewer than two fields or an empty quote text) is non-fatal, is
\* logged as a warning, and the loop goes on with the remaining records.
C21_SkipsAreWarned ==
    [][SkipStep => /\ pc' = "gen"
                   /\ errors' = errors
                   /\ warnings' = warnings + 1]_vars

\* C21 as amended: every per-record skip is non-fatal and the loop goes on with
\* the remaining records; the skip is silent: it logs no warning, displays no
\* error and leaves the flow and the placements of the run as they were.
C21_SkipsAreSilent ==
    [][SkipStep => /\ pc' = "gen"
                   /\ errors' = errors
                   /\ warnings' = warnings
                   /\ story' = story
                   /\ layout' = layout]_vars

\* an Authored Quotes run passed over a single-field row and then emitted the
\* record of the following row, with no warning logged
C21_Witness ==
    /\ pc = "gen"
    /\ document_type = "Authored Quotes"
    /\ line_num = 2
    /\ SkippedRecord(document_type, file[1])
    /\ file[1] # <<>>
    /\ ~SkippedRecord(document_type, file[2])
    /\ Len(layout) = 1
    /\ NumRecords(story) = 1
    /\ warnings = 0

----------------------------------------------------------------------------
(* Exact and truncated multiples of the scale *)

\* x * scale, in length units (the scale's denominator divides Den)
TimesScale(x, sf) == x * sf[1] * (Den \div sf[2])

\* int(x * scale): x * scale truncated to a whole number, in length units
TruncatedTimesScale(x, sf) == ((x * sf[1]) \div sf[2]) * Den

\* page height - 2 * margin, margin = 1.5 * scale inches
ContentAreaHeight(size, sf) == page_height(size) - 2 * TimesScale(108, sf)

\* C22 as stated: for bottom placement the spacer is exactly
\* max(0, content_area_height - estimated height - 20 x scale), on every page
\* size, with content_area_height = page height - 2 x margin.
C22_BottomSpacerExact ==
    \A p \in Placements :
        p.position = "bottom" =>
            /\ p.content_area_height = ContentAreaHeight(page_size, p.scale)
            /\ p.spacer_amount =
                   Max(0, p.content_area_height - p.content_height
                          - TimesScale(20, p.scale))

\* C22 as amended: the extra bottom margin is 20 x scale truncated to a whole
\* number: the bottom spacer is
\* max(0, content_area_height - estimated height - int(20 x scale)).
C22_BottomSpacerTruncated ==
    \A p \in Placements :
        p.position = "bottom" =>
            /\ p.content_area_height = ContentAreaHeight(page_size, p.scale)
            /\ p.spacer_amount =
                   Max(0, p.content_area_height - p.content_height
                          - TruncatedTimesScale(20, p.scale))

\* a bottom placement with room to spare on an A0 page in Quotes mode, where
\* 20 x scale = 63.5 is not a whole number
C22_Witness ==
    /\ document_type = "Quotes"
    /\ page_size = <<331, 468>>
    /\ \E p \in Placements :
          /\ p.position = "bottom"
          /\ TruncatedTimesScale(20, p.scale) < TimesScale(20, p.scale)
          /\ p.spacer_amount > 0

----------------------------------------------------------------------------
(* Long-text padding *)

\* the text segments of a record: the texts of its paragraphs
Segments(dt, texts) ==
    IF dt = "Dictionary"
    THEN <<Lower(texts[1]),
           PronunciationText([pronunciation |-> texts[2], type |-> texts[3]]),
           texts[4]>>
    ELSE texts

\* max(1, len(text) // 80)
LineCount(text) == IF StrLen(text) \div 80 >= 1 THEN StrLen(text) \div 80 ELSE 1

\* what an estimate holds beyond the base height, the custom-font padding and
\* the non-ASCII padding: its long-text padding
LongTextPart(dt, sel, p) ==
    (p.content_height \div 11) * 10 - BaseHeight(dt, p.lines, p.scale)
        - Corrections(dt, sel, p)[1] - Corrections(dt, sel, p)[3]

\* C23 as stated: the long-text padding is computed per text segment: each
\* segment whose line count max(1, len // 80) exceeds 2 (240 characters or
\* more) adds line_count x 8 x scale, and no other segment adds anything.
C23_PaddingPerSegment ==
    \A p \in Placements :
        ~p.warned =>
            LET seg == Segments(document_type, p.texts)
            IN  LongTextPart(document_type, fonts, p) =
                    SumSeq([i \in 1..Len(seg) |->
                               IF LineCount(seg[i]) > 2
                               THEN TimesScale(LineCount(seg[i]) * 8, p.scale) ELSE 0])

\* C23 as amended: the long-text padding is computed for one segment of the
\* record, its main text (the definition of an Entry, the quote text of a
\* Quote or an Authored Quote): when its line count max(1, len // 80) exceeds 2
\* (240 characters or more) the padding is line_count x int(8 x scale), and
\* otherwise there is none.
C23_PaddingOfMainText ==
    \A p \in Placements :
        ~p.warned =>
            LET main == IF document_type = "Dictionary" THEN p.texts[4] ELSE p.texts[1]
            IN  /\ LineCount(main) > 2 <=> StrLen(main) >= 240
                /\ LongTextPart(document_type, fonts, p) =
                       IF StrLen(main) >= 240
                       THEN LineCount(main) * TruncatedTimesScale(8, p.scale) ELSE 0

\* a quote of 241 characters measured on an A0 page: 3 lines are counted and
\* the padding is 3 x int(25.4) = 75 points, less than 3 x 8 x scale
C23_Witness ==
    /\ document_type = "Quotes"
    /\ page_size = <<331, 468>>
    /\ \E p \in Placements :
          /\ ~p.warned
          /\ StrLen(p.texts[1]) = 241
          /\ LongTextPart(document_type, fonts, p) = Pt(75)
          /\ LongTextPart(document_type, fonts, p) < TimesScale(3 * 8, p.scale)

----------------------------------------------------------------------------
(* Non-ASCII padding *)

\* what an estimate holds beyond the base height, the custom-font padding and
\* the long-text padding: its non-ASCII padding
NonAsciiPart(dt, sel, p) ==
    (p.content_height \div 11) * 10 - BaseHeight(dt, p.lines, p.scale)
        - Corrections(dt, sel, p)[1] - Corrections(dt, sel, p)[2]

\* some character of some field of the record has a code point above 127
RecordHasNonAscii(texts) == \E i \in 1..Len(texts) : HasNonAscii(texts[i])

\* C24: the non-ASCII padding is one flat 6 x scale per record, added exactly
\* when some character of the record's text has a code point above 127; for an
\* Entry the record's text is all of term, pronunciation, category and
\* definition.
C24_NonAsciiPadding ==
    \A p \in Placements :
        ~p.warned =>
            NonAsciiPart(document_type, fonts, p) =
                IF RecordHasNonAscii(p.texts) THEN TimesScale(6, p.scale) ELSE 0

----------------------------------------------------------------------------
(* Independence of the records *)

\* C26: what is emitted for a record depends only on the record and on the
\* run's configuration, not on the records around it: its estimated height is
\* the estimator's value for its own texts, and a record with the same texts
\* (wrapped to the same lines) as an earlier record of the run gets the same
\* estimated height, the same spacer and the same page elements.  Stated of
\* the record emitted last, in every state.
C26_RecordsIndependent ==
    (pc \in {"gen", "failed"} /\ layout # <<>>) =>
        LET n == Len(layout)
            p == layout[n]
            pages == Pages(story)
        IN  /\ p.content_height =
                   Estimate(document_type, p.texts, p.lines, p.scale, fonts)[1]
            /\ \A i \in 1..(n - 1) :
                  (layout[i].texts = p.texts /\ layout[i].lines = p.lines)
                  => /\ layout[i].content_height = p.content_height
                     /\ layout[i].spacer_amount = p.spacer_amount
                     /\ pc = "gen" => pages[i] = pages[n]

\* a Dictionary run emitted the same record twice, first and second in the
\* file, with room to spare at the bottom: the second page equals the first
C26_Witness ==
    /\ pc = "gen"
    /\ document_type = "Dictionary"
    /\ page_position = "bottom"
    /\ Len(layout) = 2
    /\ layout[1].texts = layout[2].texts
    /\ layout[1].lines = layout[2].lines
    /\ layout[1].spacer_amount > 0
    /\ Len(Pages(story)) = 2
    /\ Pages(story)[1] = Pages(story)[2]

-----------------------------------------------------------------------------
(* C28: the load-time count of Authored Quotes against the generator *)

\* the pages create_authored_quotes_pdf_from_csv emits for a file (one per row
\* it does not skip)
EmittedPages(f) == Len(ValidRecords("Authored Quotes", <<>>, f))

\* C28 as stated: for Authored Quotes the number of valid quotes counted when
\* the file is loaded equals the number of pages the generator emits for the
\* same file, and generation is enabled exactly when the generator would emit
\* at least one page.
C28_CountIsPages ==
    (document_type = "Authored Quotes" /\ pc = "loaded") =>
        /\ valid_quotes(file) = EmittedPages(file)
        /\ csv_valid <=> EmittedPages(file) >= 1
        /\ ENABLED ClickGeneratePDF <=> EmittedPages(file) >= 1

-----------------------------------------------------------------------------
(* C29: the content area of the accepted page sizes *)

\* page width - 2 * margin, margin = 1.5 * scale inches
ContentAreaWidth(size, sf) == page_width(size) - 2 * TimesScale(108, sf)

\* C29 as stated: for every page size a run is made with (a standard size, or
\* a custom width and height between 1.0 and 50.0 inches) the usable content
\* width and content height, page dimension minus 2 x margin, are strictly
\* positive.
C29_ContentAreaPositive ==
    pc \in {"gen", "failed"} =>
        LET sf == scale_factor(page_size)
        IN  /\ 10 <= page_size[1] /\ page_size[1] <= 500
            /\ 10 <= page_size[2] /\ page_size[2] <= 500
            /\ scaled_margin(sf) = TimesScale(108, sf)
            /\ ContentAreaWidth(page_size, sf) > 0
            /\ ContentAreaHeight(page_size, sf) > 0
            /\ \A p \in Placements : p.content_area_height > 0

-----------------------------------------------------------------------------
(* C30: the default page position of create_pdf_from_csv *)

\* C30 as stated: create_pdf_from_csv called with its default page position
\* ("bottom-left", the value used when the argument is left out) computes for
\* every record the leading spacer it computes for page_position = "bottom".
C30_DefaultIsBottom ==
    document_type = "Dictionary" =>
        \A p \in Placements :
            p.position = "bottom-left" =>
                p.spacer_amount =
                    get_end_positioned_spacer_amount("bottom", page_height(page_size),
                        scaled_margin(p.scale), p.content_height, p.scale)

-----------------------------------------------------------------------------
(* C25: font registrations under a running clock *)

\* the clock readings of the model
MaxClock == 2

\* a millisecond passes
Tick ==
    /\ clock < MaxClock
    /\ clock' = clock + 1
    /\ UNCHANGED <<document_type, page_position, page_size, fonts, validation_msg,
                   header, file, csv_valid, pc, target, line_num, first_page, story,
                   layout, warnings, document, png_files, generate_all_sizes,
                   size_idx, disk, temp_files, zip_files, png_folders, built,
                   errors, fault, registrations, archive>>

\* an upload of a one-record file with TTF fonts selected, for one size or for
\* all standard sizes
UploadWithTtfFonts ==
    pc = "idle" /\
    \E dt \in DocumentTypes, all \in BOOLEAN :
       LET set == [position |-> "bottom", size |-> <<110, 140>>,
                   fonts |-> <<"/fonts/a.ttf", "Helvetica-Bold", "/fonts/b.ttf">>,
                   all_sizes |-> all]
           hd == IF dt = "Dictionary" THEN required_columns ELSE <<>>
           f == IF dt = "Dictionary"
                THEN <<<<<<84, 1>>, <<44, 1>>, <<112, 1>>, <<44, 1>>, <<110, 1>>,
                         <<44, 1>>, <<100, 1>>>>>>
                ELSE IF dt = "Quotes" THEN <<<<<<97, 1>>>>>>
                ELSE <<<<<<97, 1>>, <<44, 1>>, <<98, 1>>>>>>
       IN  Load(dt, set, hd, f)

ClockNext ==
    \/ UploadWithTtfFonts
    \/ ClickGeneratePDF
    \/ NextSize
    \/ DictionaryStep
    \/ QuoteStep
    \/ AuthoredStep
    \/ Build
    \/ CollectPdf
    \/ DownloadPdf
    \/ ArchivePdfs
    \/ DriverExcept
    \/ DriverFinally
    \/ Tick

\* the "Generate PDF" handler with TTF fonts, the clock running beside it
ClockSpec == Init /\ [][ClockNext]_vars

\* C25 as stated: any two font registrations made in one process, for
\* different roles of one run or by successive generator calls of an
\* all-sizes batch, are given distinct names, however little time passes
\* between them.
C25_DistinctHandles ==
    \A i, j \in 1..Len(registrations) :
        i # j => registrations[i] # registrations[j]

-----------------------------------------------------------------------------
(* C27: runs of the "Generate PNGs" handler in one working directory *)

\* the next script run in the same working directory: the uploader is fresh,
\* what earlier runs left on disk is still there
RerunInPlace ==
    /\ pc = "ended"
    /\ document_type' = "Dictionary"
    /\ page_position' = "bottom"
    /\ page_size' = <<110, 140>>
    /\ fonts' = <<"Times-Bold", "Helvetica-Bold", "Helvetica">>
    /\ validation_msg' = "none"
    /\ header' = <<>>
    /\ file' = <<>>
    /\ csv_valid' = FALSE
    /\ pc' = "idle"
    /\ target' = "none"
    /\ line_num' = 0
    /\ first_page' = TRUE
    /\ story' = <<>>
    /\ layout' = <<>>
    /\ warnings' = 0
    /\ document' = <<>>
    /\ png_files' = 0
    /\ generate_all_sizes' = FALSE
    /\ size_idx' = 0
    /\ temp_files' = <<>>
    /\ zip_files' = <<>>
    /\ png_folders' = <<>>
    /\ built' = <<>>
    /\ errors' = <<>>
    /\ fault' = FALSE
    /\ registrations' = <<>>
    /\ archive' = {}
    /\ UNCHANGED <<disk, clock>>

\* an upload of a Quotes file of plain one-character quotes, for the 11x14 size
UploadQuotes ==
    pc = "idle" /\
    \E f \in SeqsUpTo({<<<<97, 1>>>>}, MaxRows) :
       Load("Quotes",
            [position |-> "bottom", size |-> <<110, 140>>,
             fonts |-> <<"Times-Bold", "Helvetica-Bold", "Helvetica">>,
             all_sizes |-> FALSE],
            <<>>, f)

DiskNext ==
    \/ UploadQuotes
    \/ ClickGeneratePNG
    \/ NextSize
    \/ QuoteStep
    \/ Build
    \/ Convert
    \/ ReturnPngs
    \/ GeneratePngsExcept
    \/ ArchivePngs
    \/ DriverExcept
    \/ DriverFinally
    \/ RerunInPlace

\* "Generate PNGs" pressed again and again in one working directory
DiskSpec == Init /\ [][DiskNext]_vars

\* the run has ended without an error displayed and without a failure
RunSucceeded == pc = "ended" /\ errors = <<>> /\ ~fault

\* C27 as stated: after any sequence of PNG runs, failed ones included, the
\* archive of a successful run holds for each size exactly one image per page
\* of that run's document, and no image an earlier run left behind.
C27_ArchiveIsThisRun ==
    (RunSucceeded /\ target = "png") =>
        archive = UNION {{png_path(k, p) : p \in 1..built[k][2]} : k \in 1..Len(built)}

====
